---------------------------- MODULE Spec2Model ----------------------------
(***************************************************************************)
(* A model of the ingestion pipeline of the repository: the chunker, the  *)
(* scraper, the Pinecone uploaders, the embedding regeneration scripts and *)
(* the embedding server.                                                   *)
(*                                                                         *)
(* Strings are sequences of one-character strings, so that len(), strip(), *)
(* split(), ' '.join() and re.split() are computed as Python computes      *)
(* them.                                                                   *)
(***************************************************************************)
EXTENDS Integers, Sequences, FiniteSets, TLC

(***************************************************************************)
(* Bounds of the model.                                                    *)
(***************************************************************************)
MaxTextLen == 7
MaxChunkSize == 4
MaxOverlapWords == 2

Min(a, b) == IF a < b THEN a ELSE b
Max(a, b) == IF a > b THEN a ELSE b

(***************************************************************************)
(* Characters.  One letter, one sentence terminator and one whitespace     *)
(* character span the text space; the scenario text of the specification   *)
(* additionally uses the letters B and C.                                  *)
(***************************************************************************)
Alphabet == {"A", ".", " "}
IsWs(c) == c \in {" ", "\n", "\t"}
IsTerm(c) == c \in {".", "!", "?"}

Texts == UNION {[1..n -> Alphabet] : n \in 0..MaxTextLen}

\* "A. B. C.", chunked with chunk_size 5 and chunk_overlap 0
ScenarioText == <<"A", ".", " ", "B", ".", " ", "C", ".">>

(***************************************************************************)
(* Python string primitives.                                               *)
(***************************************************************************)
RECURSIVE LStrip(_)
LStrip(s) == IF Len(s) > 0 /\ IsWs(s[1]) THEN LStrip(SubSeq(s, 2, Len(s))) ELSE s

RECURSIVE RStrip(_)
RStrip(s) == IF Len(s) > 0 /\ IsWs(s[Len(s)]) THEN RStrip(SubSeq(s, 1, Len(s) - 1)) ELSE s

\* str.strip()
Strip(s) == RStrip(LStrip(s))

RECURSIVE SplitFrom(_, _, _)
SplitFrom(s, i, word) ==
    IF i > Len(s) THEN (IF Len(word) = 0 THEN <<>> ELSE <<word>>)
    ELSE IF IsWs(s[i])
         THEN (IF Len(word) = 0 THEN <<>> ELSE <<word>>) \o SplitFrom(s, i + 1, <<>>)
         ELSE SplitFrom(s, i + 1, Append(word, s[i]))

\* str.split(): the maximal runs of non-whitespace characters
SplitWords(s) == SplitFrom(s, 1, <<>>)

RECURSIVE Join(_)
\* ' '.join(words)
Join(words) ==
    IF Len(words) = 0 THEN <<>>
    ELSE IF Len(words) = 1 THEN words[1]
    ELSE words[1] \o <<" ">> \o Join(Tail(words))

\* words[start:] for a Python slice start index (negative counts from the end)
SliceFrom(words, start) ==
    LET n == Len(words)
        from == IF start < 0 THEN Max(n + start, 0) ELSE Min(start, n)
    IN  SubSeq(words, from + 1, n)

RECURSIVE WsRunEnd(_, _)
\* the last index of the whitespace run that starts at index i
WsRunEnd(s, i) == IF i < Len(s) /\ IsWs(s[i + 1]) THEN WsRunEnd(s, i + 1) ELSE i

RECURSIVE ReSplitFrom(_, _, _)
ReSplitFrom(s, i, piece) ==
    IF i > Len(s) THEN <<piece>>
    ELSE IF IsWs(s[i]) /\ i > 1 /\ IsTerm(s[i - 1])
         THEN <<piece>> \o ReSplitFrom(s, WsRunEnd(s, i) + 1, <<>>)
         ELSE ReSplitFrom(s, i + 1, Append(piece, s[i]))

\* re.split(r'(?<=[.!?])\s+', text)
SplitSentences(text) == ReSplitFrom(text, 1, <<>>)

(***************************************************************************)
(* State.                                                                  *)
(*   chunk_size, chunk_overlap   the scraper object's configuration        *)
(*   text .. chunks              the locals of one chunk_text call         *)
(*   si                          the position of the for loop in sentences *)
(*   ck_pc                       where the chunk_text call stands          *)
(*   vectors                     self.vectors of the scraper               *)
(*   sc_pc                       "scraping" until the file is written      *)
(*   sc_calls                    the number of process_url calls made      *)
(*   sc_last                     what the last process_url call saw and    *)
(*                               returned (NoCall once the next one starts)*)
(*   sc_log                      for every process_url call so far, in     *)
(*                               order: its URL, the text it extracted,    *)
(*                               the ids of its chunks, and where its      *)
(*                               records are in self.vectors               *)
(*   pinecone_data               the file save_to_pinecone_json wrote last *)
(*   up_script                   the uploader that runs: "simple"          *)
(*                               (upload_to_pinecone_simple.py),           *)
(*                               "interactive" (upload_to_pinecone.py) or  *)
(*                               "recreate" (recreate_index_384.py)        *)
(*   up_vectors, batch_size      the records to upload and the batch size  *)
(*   up_pc                       where the upload function stands          *)
(*   up_i, uploaded              the locals i and uploaded of the loop     *)
(*   up_existing                 whether index_name was in                 *)
(*                               existing_indexes at the first listing     *)
(*   up_failed                   the service call that raised, if any      *)
(*   up_calls                    the create_index, delete_index and upsert *)
(*                               calls issued, in order                    *)
(*   up_out                      the progress, error and success lines     *)
(*                               printed, in order                         *)
(*   svc                         the index service: the state of the index *)
(*                               named index_name and its dimension        *)
(*   svc_listed                  whether the index was ever listed since   *)
(*                               the upload started                        *)
(*   ft_pc                       where one fetch_url call stands           *)
(*   ft_url                      its url argument                          *)
(*   ft_response                 what requests.get answered                *)
(*   ft_requests                 the number of requests.get calls made     *)
(*   ft_result                   what fetch_url returned                   *)
(*   main_pc                     where main() of the uploader script       *)
(*                               stands                                    *)
(*   main_input                  what the command line, the prompts and    *)
(*                               the file system give main()               *)
(*   exit_status                 the exit status of the process, -1 while  *)
(*                               it runs                                   *)
(*   rg_script                   the regeneration script that runs:        *)
(*                               "openai" (regenerate_embeddings_openai_   *)
(*                               1024.py) or "local"                       *)
(*                               (regenerate_embeddings_1024.py)           *)
(*   rg_data                     the JSON document it loaded               *)
(*   rg_pc, rg_i                 where it stands, and the number of input  *)
(*                               vectors the loop has been through         *)
(*   new_vectors                 its local new_vectors                     *)
(*   rg_file                     the file it wrote                         *)
(*   em_pc                       where the /embed endpoint stands          *)
(*   em_request                  the request it handles                    *)
(*   em_response                 its answer                                *)
(*   em_encoded                  the number of model.encode calls made for *)
(*                               the request                               *)
(***************************************************************************)
VARIABLES chunk_size, chunk_overlap,
          ck_pc, text, sentences, si, current_chunk, chunk_index, start_char, chunks,
          vectors, sc_pc, sc_calls, sc_last, sc_log, pinecone_data,
          up_script, up_vectors, batch_size, up_pc, up_i, uploaded, up_existing,
          up_failed, up_calls, up_out, svc, svc_listed,
          ft_pc, ft_url, ft_response, ft_requests, ft_result,
          main_pc, main_input, exit_status,
          rg_script, rg_data, rg_pc, rg_i, new_vectors, rg_file,
          em_pc, em_request, em_response, em_encoded

chunkVars == <<ck_pc, text, sentences, si, current_chunk, chunk_index, start_char, chunks>>
configVars == <<chunk_size, chunk_overlap>>
scrapeVars == <<vectors, sc_pc, sc_calls, sc_last, sc_log, pinecone_data>>
uploadVars == <<up_script, up_vectors, batch_size, up_pc, up_i, uploaded, up_existing,
                up_failed, up_calls, up_out>>
serviceVars == <<svc, svc_listed>>
fetchVars == <<ft_pc, ft_url, ft_response, ft_requests, ft_result>>
mainVars == <<main_pc, main_input, exit_status>>
regenVars == <<rg_script, rg_data, rg_pc, rg_i, new_vectors, rg_file>>
embedVars == <<em_pc, em_request, em_response, em_encoded>>
toolVars == <<regenVars, embedVars>>
vars == <<configVars, chunkVars, scrapeVars, uploadVars, serviceVars, fetchVars, mainVars, toolVars>>

(***************************************************************************)
(* Source URLs and the 8 hex digit prefix of their MD5 digest: a fixed     *)
(* function of the URL.  The URLs of the model have different prefixes.    *)
(***************************************************************************)
Urls == {"u1", "u2"}
Md5Prefix(source) == IF source = "u1" THEN "h1" ELSE "h2"

\* mutant: the identifier numbers the chunks from 1
GenerateChunkId_FromOne(source, idx) == <<Md5Prefix(source), "_chunk_", idx + 1>>

\* generate_chunk_id: f"{source_hash}_chunk_{chunk_index}"
GenerateChunkId(source, idx) == <<Md5Prefix(source), "_chunk_", idx>>

(***************************************************************************)
(* chunk_text, as operators on the loop's locals                           *)
(* st = [current_chunk, chunk_index, start_char, chunks].                  *)
(***************************************************************************)
ChunkLocals == [current_chunk |-> <<>>, chunk_index |-> 0, start_char |-> 0, chunks |-> <<>>]

\* the dictionary appended to chunks
MakeChunk(st, source) ==
    [text        |-> Strip(st.current_chunk),
     chunk_index |-> st.chunk_index,
     source      |-> source,
     start_char  |-> st.start_char,
     end_char    |-> st.start_char + Len(st.current_chunk),
     chunk_id    |-> GenerateChunkId(source, st.chunk_index)]

\* mutant: the size test written with >= instead of >
MustClose_AtLeast(st, sentence, size) ==
    Len(st.current_chunk) + Len(sentence) >= size /\ Len(st.current_chunk) > 0

\* mutant: the size test without "and current_chunk"
MustClose_EmptyBuffer(st, sentence, size) ==
    Len(st.current_chunk) + Len(sentence) > size

\* mutant: the size test without len(current_chunk)
MustClose_SentenceOnly(st, sentence, size) ==
    Len(sentence) > size /\ Len(st.current_chunk) > 0

\* len(current_chunk) + len(sentence) > self.chunk_size and current_chunk
MustClose(st, sentence, size) ==
    Len(st.current_chunk) + Len(sentence) > size /\ Len(st.current_chunk) > 0

\* mutant: no word is carried over
OverlapWords_None(words, overlap) == <<>>

\* words[-int(self.chunk_overlap / 10):]
OverlapWords(words, overlap) == SliceFrom(words, 0 - (overlap \div 10))

\* mutant: chunk_index is not incremented when a chunk is closed
CloseChunk_SameIndex(st, sentence, source, overlap) ==
    LET chunk == MakeChunk(st, source)
        overlap_words == OverlapWords(SplitWords(st.current_chunk), overlap)
    IN  [current_chunk |-> Join(overlap_words) \o <<" ">> \o sentence,
         chunk_index   |-> st.chunk_index,
         start_char    |-> chunk.end_char - Len(Join(overlap_words)),
         chunks        |-> Append(st.chunks, chunk)]

\* mutant: start_char is counted from the start of the closed chunk, not from
\* its end_char
CloseChunk_LocalOffset(st, sentence, source, overlap) ==
    LET chunk == MakeChunk(st, source)
        overlap_words == OverlapWords(SplitWords(st.current_chunk), overlap)
    IN  [current_chunk |-> Join(overlap_words) \o <<" ">> \o sentence,
         chunk_index   |-> st.chunk_index + 1,
         start_char    |-> Len(st.current_chunk) - Len(Join(overlap_words)),
         chunks        |-> Append(st.chunks, chunk)]

\* the if branch of the loop body
CloseChunk(st, sentence, source, overlap) ==
    LET chunk == MakeChunk(st, source)
        overlap_words == OverlapWords(SplitWords(st.current_chunk), overlap)
    IN  [current_chunk |-> Join(overlap_words) \o <<" ">> \o sentence,
         chunk_index   |-> st.chunk_index + 1,
         start_char    |-> chunk.end_char - Len(Join(overlap_words)),
         chunks        |-> Append(st.chunks, chunk)]

\* the else branch of the loop body
AppendSentence(st, sentence) ==
    [st EXCEPT !.current_chunk = @ \o sentence \o <<" ">>]

\* mutant: the remaining buffer is not added
FinishChunks_Dropped(st, source) == st.chunks

\* mutant: the remaining buffer is added without the strip() test
FinishChunks_Unchecked(st, source) == Append(st.chunks, MakeChunk(st, source))

\* "Add remaining chunk"
FinishChunks(st, source) ==
    IF Len(Strip(st.current_chunk)) > 0 THEN Append(st.chunks, MakeChunk(st, source))
    ELSE st.chunks

RECURSIVE ChunkLoop(_, _, _, _, _, _)
ChunkLoop(st, sents, i, source, size, overlap) ==
    IF i > Len(sents) THEN st
    ELSE ChunkLoop(IF MustClose(st, sents[i], size)
                   THEN CloseChunk(st, sents[i], source, overlap)
                   ELSE AppendSentence(st, sents[i]),
                   sents, i + 1, source, size, overlap)

\* chunk_text(text, source) of a scraper with the given configuration
ChunkText(txt, source, size, overlap) ==
    IF Len(txt) = 0 THEN <<>>
    ELSE FinishChunks(ChunkLoop(ChunkLocals, SplitSentences(txt), 1, source, size, overlap),
                      source)

(***************************************************************************)
(* The scraper before any URL is processed: self.vectors = [].             *)
(***************************************************************************)
NoCall == [url |-> "", fetched |-> "none", primary_raised |-> FALSE, primary_text |-> <<>>,
           fallback_raised |-> FALSE, text |-> <<>>, n_chunks |-> 0, n_vectors |-> 0,
           chunk_indices |-> <<>>, generate_embeddings |-> FALSE, failed |-> {},
           embedding_calls |-> <<>>, requests |-> 0, status |-> 0,
           fallback_text |-> <<>>]
NoFile == [written |-> FALSE, vectors |-> <<>>, total_vectors |-> 0, total_chunks |-> 0,
           sources |-> {}]

ScraperIdle ==
    /\ vectors = <<>>
    /\ sc_pc = "scraping"
    /\ sc_calls = 0
    /\ sc_last = NoCall
    /\ sc_log = <<>>
    /\ pinecone_data = NoFile

(***************************************************************************)
(* No uploader runs.                                                       *)
(***************************************************************************)
UploaderIdle ==
    /\ up_script = "none"
    /\ up_vectors = <<>>
    /\ batch_size = 1
    /\ up_pc = "idle"
    /\ up_i = 0
    /\ uploaded = 0
    /\ up_existing = FALSE
    /\ up_failed = "none"
    /\ up_calls = <<>>
    /\ up_out = <<>>
    /\ svc = [state |-> "absent", dimension |-> 0]
    /\ svc_listed = FALSE

(***************************************************************************)
(* No fetch_url call is under way.                                         *)
(***************************************************************************)
NoResponse == [outcome |-> "none"]

FetcherIdle ==
    /\ ft_pc = "idle"
    /\ ft_url = <<>>
    /\ ft_response = NoResponse
    /\ ft_requests = 0
    /\ ft_result = [type |-> "none"]

(***************************************************************************)
(* The upload function is called directly, not from main(): every          *)
(* argument is given and the file exists and loads.                        *)
(***************************************************************************)
AllGiven == [api_key |-> TRUE, index_name |-> TRUE, file_exists |-> TRUE, file_loads |-> TRUE]

MainIdle ==
    /\ main_pc = "idle"
    /\ main_input = AllGiven
    /\ exit_status = -1

(***************************************************************************)
(* No regeneration script runs and the embedding server has no request.    *)
(***************************************************************************)
NoData == [vectors |-> <<>>, metadata |-> [total_vectors |-> 0, total_chunks |-> 0]]
NoOutput == [written |-> FALSE]
NoRequest == [is_json |-> FALSE, body |-> [kind |-> "none"]]
NoAnswer == [status |-> 0]

ToolsIdle ==
    /\ rg_script = "none"
    /\ rg_data = NoData
    /\ rg_pc = "idle"
    /\ rg_i = 0
    /\ new_vectors = <<>>
    /\ rg_file = NoOutput
    /\ em_pc = "off"
    /\ em_request = NoRequest
    /\ em_response = NoAnswer
    /\ em_encoded = 0

(***************************************************************************)
(* One chunk_text call, statement by statement.                            *)
(***************************************************************************)
ChunkSource == "u1"
ChunkSizes == 1..MaxChunkSize
ChunkOverlaps == {0, 9} \cup {10 * k : k \in 1..MaxOverlapWords}

Locals == [current_chunk |-> current_chunk, chunk_index |-> chunk_index,
           start_char |-> start_char, chunks |-> chunks]

SetLocals(st) ==
    /\ current_chunk' = st.current_chunk
    /\ chunk_index' = st.chunk_index
    /\ start_char' = st.start_char
    /\ chunks' = st.chunks

InitChunk ==
    /\ \/ \E t \in Texts, size \in ChunkSizes, ov \in ChunkOverlaps :
             /\ text = t
             /\ chunk_size = size
             /\ chunk_overlap = ov
       \/ /\ text = ScenarioText
          /\ chunk_size = 5
          /\ chunk_overlap = 0
    /\ ck_pc = "call"
    /\ sentences = <<>>
    /\ si = 1
    /\ current_chunk = <<>>
    /\ chunk_index = 0
    /\ start_char = 0
    /\ chunks = <<>>
    /\ ScraperIdle
    /\ UploaderIdle
    /\ FetcherIdle
    /\ MainIdle
    /\ ToolsIdle

\* if not text: return []
ChunkReturnEmpty ==
    /\ ck_pc = "call"
    /\ Len(text) = 0
    /\ ck_pc' = "done"
    /\ UNCHANGED <<text, sentences, si, current_chunk, chunk_index, start_char, chunks>>
    /\ UNCHANGED <<configVars, scrapeVars, uploadVars, serviceVars, fetchVars, mainVars, toolVars>>

\* sentences = re.split(...)
ChunkSplit ==
    /\ ck_pc = "call"
    /\ Len(text) > 0
    /\ sentences' = SplitSentences(text)
    /\ ck_pc' = "loop"
    /\ UNCHANGED <<text, si, current_chunk, chunk_index, start_char, chunks>>
    /\ UNCHANGED <<configVars, scrapeVars, uploadVars, serviceVars, fetchVars, mainVars, toolVars>>

ChunkClose ==
    /\ ck_pc = "loop"
    /\ si <= Len(sentences)
    /\ MustClose(Locals, sentences[si], chunk_size)
    /\ SetLocals(CloseChunk(Locals, sentences[si], ChunkSource, chunk_overlap))
    /\ si' = si + 1
    /\ UNCHANGED <<ck_pc, text, sentences>>
    /\ UNCHANGED <<configVars, scrapeVars, uploadVars, serviceVars, fetchVars, mainVars, toolVars>>

ChunkAppend ==
    /\ ck_pc = "loop"
    /\ si <= Len(sentences)
    /\ ~MustClose(Locals, sentences[si], chunk_size)
    /\ SetLocals(AppendSentence(Locals, sentences[si]))
    /\ si' = si + 1
    /\ UNCHANGED <<ck_pc, text, sentences>>
    /\ UNCHANGED <<configVars, scrapeVars, uploadVars, serviceVars, fetchVars, mainVars, toolVars>>

ChunkFinish ==
    /\ ck_pc = "loop"
    /\ si > Len(sentences)
    /\ chunks' = FinishChunks(Locals, ChunkSource)
    /\ ck_pc' = "done"
    /\ UNCHANGED <<text, sentences, si, current_chunk, chunk_index, start_char>>
    /\ UNCHANGED <<configVars, scrapeVars, uploadVars, serviceVars, fetchVars, mainVars, toolVars>>

NextChunk == ChunkReturnEmpty \/ ChunkSplit \/ ChunkClose \/ ChunkAppend \/ ChunkFinish

SpecChunk == InitChunk /\ [][NextChunk]_vars

(***************************************************************************)
(* Claims about chunk_text (checked under SpecChunk).                      *)
(***************************************************************************)
IsScenario ==
    /\ text = ScenarioText
    /\ chunk_size = 5
    /\ chunk_overlap = 0

ChunkTexts == [j \in 1..Len(chunks) |-> chunks[j].text]

NonBlank(s) == Len(Strip(s)) > 0

\* the last k words of words, all of them if there are fewer than k
LastWords(words, k) ==
    IF k >= Len(words) THEN words ELSE SubSeq(words, Len(words) - k + 1, Len(words))

\* C1 (as claimed): chunk_text("A. B. C.") with chunk_size=5 and
\* chunk_overlap=0 returns exactly 3 chunks, "A.", "B." and "C.".
C1_ScenarioThreeChunks ==
    (IsScenario /\ ck_pc = "done") =>
        ChunkTexts = << <<"A", ".">>, <<"B", ".">>, <<"C", ".">> >>

\* C1 (amended): chunk_text("A. B. C.") with chunk_size=5 and chunk_overlap=0
\* returns exactly 2 chunks: the first is "A. B." ("A. " plus "B." is 5
\* characters, which does not exceed chunk_size), and the second ends with the
\* sentence "C.".
C1_ScenarioTwoChunks ==
    (IsScenario /\ ck_pc = "done") =>
        /\ Len(chunks) = 2
        /\ chunks[1].text = <<"A", ".", " ", "B", ".">>
        /\ Len(chunks[2].text) >= 2
        /\ SubSeq(chunks[2].text, Len(chunks[2].text) - 1, Len(chunks[2].text)) = <<"C", ".">>

C1_Witness == IsScenario /\ ck_pc = "done" /\ Len(chunks) = 2

\* C2: whenever chunk_text closes a chunk, the next buffer is the last
\* floor(chunk_overlap/10) words of the closed buffer (all of them only if it
\* has fewer), followed by the next sentence; for chunk_overlap in 0..9 the
\* seed holds no word of the closed buffer.
C2_SeedIsLastOverlapWords ==
    [][(ck_pc = "loop" /\ chunk_index' = chunk_index + 1) =>
          current_chunk' = Join(LastWords(SplitWords(current_chunk), chunk_overlap \div 10))
                             \o <<" ">> \o sentences[si]]_vars

IsLongSentence(i) == Len(sentences[i]) > chunk_size /\ NonBlank(sentences[i])

\* C9 (as claimed): a sentence longer than chunk_size is emitted as a chunk of
\* its own, one that holds no other sentence: the chunk's text is the sentence.
\* Stated for chunk_overlap >= 10, where at least one word is carried over by
\* design, so that a violation does not rest on the chunk_overlap < 10 case
\* of C2.
C9_LongSentenceOwnChunk ==
    (ck_pc = "done" /\ chunk_overlap >= 10) =>
        \A i \in 1..Len(sentences) :
            IsLongSentence(i) => \E j \in 1..Len(chunks) : chunks[j].text = Strip(sentences[i])

\* C9 (amended): a sentence longer than chunk_size is never split.  The first
\* sentence of the text is the first chunk's whole text; a later one ends a
\* chunk whose text is the words carried over from the previous chunk
\* (words[-int(chunk_overlap/10):] of it) followed by the whole sentence, and
\* no later sentence is in that chunk.
C9_LongSentenceUnsplit ==
    ck_pc = "done" =>
        \A i \in 1..Len(sentences) :
            IsLongSentence(i) =>
                IF i = 1 THEN chunks[1].text = Strip(sentences[1])
                ELSE \E j \in 2..Len(chunks) :
                        chunks[j].text =
                            Strip(Join(OverlapWords(SplitWords(chunks[j - 1].text), chunk_overlap))
                                    \o <<" ">> \o sentences[i])

C9_Witness ==
    /\ ck_pc = "done"
    /\ Len(chunks) >= 3
    /\ \E i \in 2..Len(sentences) : IsLongSentence(i) /\ i < Len(sentences)

(***************************************************************************)
(* fetch_url.                                                              *)
(*                                                                         *)
(* A URL and a content-type header are sequences of pieces of text, so     *)
(* that endswith() and 'in' are computed on them as Python computes them   *)
(* on the strings: no piece is the end of, or is contained in, another     *)
(* piece but by being the same up to case.  requests.get raises (timeout,  *)
(* network error) or answers with a status and headers; which is the       *)
(* server's choice.                                                        *)
(***************************************************************************)
UrlExtensions == {<<>>, <<".pdf">>, <<".PDF">>, <<".html">>, <<".htm">>}
UrlQueries == {<<>>, <<"?", "utm_source=chatgpt.com">>, <<"?", "file=report", ".pdf">>}
FetchUrls ==
    {<<"https://portal.amfiindia.com/spages/13885">> \o e \o q :
        e \in UrlExtensions, q \in UrlQueries}

\* the content-type header; <<>> when the response has none
ContentTypes ==
    {<<>>,
     <<"application/", "pdf">>,
     <<"Application/", "PDF">>,
     <<"application/", "x-", "pdf">>,
     <<"text/", "html">>,
     <<"text/", "html", "; charset=utf-8">>,
     <<"application/", "x", "html", "+xml">>,
     <<"text/", "plain">>,
     <<"application/", "octet-stream">>}

StatusCodes == {200, 300, 404, 500}

Responses ==
    {[outcome |-> "raised"]}
        \cup [outcome : {"response"}, status : StatusCodes, content_type : ContentTypes]

LowerPiece(t) ==
    CASE t = ".PDF" -> ".pdf"
      [] t = "PDF" -> "pdf"
      [] t = "Application/" -> "application/"
      [] OTHER -> t

\* str.lower()
Lower(s) == [k \in 1..Len(s) |-> LowerPiece(s[k])]

\* str.endswith(suffix)
EndsWith(s, suffix) ==
    /\ Len(s) >= Len(suffix)
    /\ SubSeq(s, Len(s) - Len(suffix) + 1, Len(s)) = suffix

\* sub in s
Contains(s, sub) ==
    \E k \in 0..(Len(s) - Len(sub)) : SubSeq(s, k + 1, k + Len(sub)) = sub

\* the type fetch_url gives a response that passed raise_for_status
ClassifyResponse(url, header) ==
    LET content_type == Lower(header)
    IN  IF EndsWith(Lower(url), <<".pdf">>) \/ Contains(content_type, <<"application/", "pdf">>)
        THEN "pdf"
        ELSE IF Contains(content_type, <<"text/", "html">>)
                \/ EndsWith(Lower(url), <<".html">>) \/ EndsWith(Lower(url), <<".htm">>)
        THEN "html"
        ELSE "text"

\* response.raise_for_status() raises
StatusRaises(status) == status >= 400 /\ status < 600

ChunkerIdle ==
    /\ chunk_size = 1
    /\ chunk_overlap = 0
    /\ ck_pc = "idle"
    /\ text = <<>>
    /\ sentences = <<>>
    /\ si = 1
    /\ current_chunk = <<>>
    /\ chunk_index = 0
    /\ start_char = 0
    /\ chunks = <<>>

InitFetch ==
    /\ ft_pc = "call"
    /\ ft_url \in FetchUrls
    /\ ft_response = NoResponse
    /\ ft_requests = 0
    /\ ft_result = [type |-> "none"]
    /\ ChunkerIdle
    /\ ScraperIdle
    /\ UploaderIdle
    /\ MainIdle
    /\ ToolsIdle

FetchRest == <<configVars, chunkVars, scrapeVars, uploadVars, serviceVars, mainVars, toolVars>>

\* response = requests.get(url, headers=headers, timeout=30); an exception
\* is caught and None is returned
FetchGet ==
    /\ ft_pc = "call"
    /\ ft_requests' = ft_requests + 1
    /\ \E r \in Responses :
          /\ ft_response' = r
          /\ ft_pc' = IF r.outcome = "raised" THEN "done" ELSE "status"
    /\ UNCHANGED <<ft_url, ft_result, FetchRest>>

\* response.raise_for_status()
FetchRaiseForStatus ==
    /\ ft_pc = "status"
    /\ ft_pc' = IF StatusRaises(ft_response.status) THEN "done" ELSE "classify"
    /\ UNCHANGED <<ft_url, ft_response, ft_requests, ft_result, FetchRest>>

\* the if / elif / else on the URL and the content type, and the return
FetchClassify ==
    /\ ft_pc = "classify"
    /\ ft_result' = [type |-> ClassifyResponse(ft_url, ft_response.content_type)]
    /\ ft_pc' = "done"
    /\ UNCHANGED <<ft_url, ft_response, ft_requests, FetchRest>>

NextFetch == FetchGet \/ FetchRaiseForStatus \/ FetchClassify

SpecFetch == InitFetch /\ [][NextFetch]_vars

(***************************************************************************)
(* Claims about fetch_url (checked under SpecFetch).                       *)
(***************************************************************************)
RECURSIVE UrlPathFrom(_, _)
UrlPathFrom(url, k) ==
    IF k > Len(url) \/ url[k] = "?" THEN <<>> ELSE <<url[k]>> \o UrlPathFrom(url, k + 1)

\* the URL without its query string
UrlPath(url) == UrlPathFrom(url, 1)

FetchSucceeded == ft_pc = "done" /\ ft_result.type # "none"

\* C11: a successful response is pdf when the URL's path ends in .pdf (a query
\* string may follow the path) or the declared content type contains "pdf";
\* otherwise html when the declared type contains "html" or the URL ends in
\* .htm or .html; otherwise text.
C11_ClassifiedByPathAndType ==
    FetchSucceeded =>
        LET content_type == Lower(ft_response.content_type)
            pdf == EndsWith(Lower(UrlPath(ft_url)), <<".pdf">>) \/ Contains(content_type, <<"pdf">>)
            html == Contains(content_type, <<"html">>)
                       \/ EndsWith(Lower(ft_url), <<".html">>) \/ EndsWith(Lower(ft_url), <<".htm">>)
        IN  ft_result.type = IF pdf THEN "pdf" ELSE IF html THEN "html" ELSE "text"


(***************************************************************************)
(* The scraper: fetch, extract, chunk, embed, collect, save.               *)
(*                                                                         *)
(* What the network, the PDF libraries and the embedding model answer is   *)
(* the environment's choice.  A PDF is its pages' texts (<<>> for a page   *)
(* without text) and, for each of the two extractors, whether it raises    *)
(* and the number of pages it has extracted by then: it raises when it     *)
(* opens the document or extracts the next page.  Both extractors read the *)
(* same page texts.                                                        *)
(***************************************************************************)
MaxCalls == 2
EmbeddingDim == 384

PdfPageLists == { <<>>, << <<"A", ".">> >>, << <<"A", ".">>, <<>> >> }
DocTexts == {<<>>, <<" ">>, <<"A", ".">>, <<"A", ".", " ", "A", ".">>}
ExtractorRuns(p) ==
    {[raises |-> FALSE, done |-> Len(p)]}
        \cup {[raises |-> TRUE, done |-> k] : k \in 0..Max(Len(p) - 1, 0)}
PdfDocs ==
    UNION {[pages : {p}, primary : ExtractorRuns(p), fallback : ExtractorRuns(p)]
              : p \in PdfPageLists}

\* what fetch_url returns: None, or a dictionary with the type and the content
Fetched ==
    {[type |-> "none"]}
        \cup [type : {"pdf"}, content : PdfDocs]
        \cup [type : {"html", "text"}, content : DocTexts]

RECURSIVE PagesText(_, _)
\* text += page_text + "\n" for the first upto pages that have text
PagesText(pages, upto) ==
    IF upto = 0 THEN <<>>
    ELSE PagesText(pages, upto - 1)
            \o (IF Len(pages[upto]) > 0 THEN pages[upto] \o <<"\n">> ELSE <<>>)

PrimaryRaised(doc) == doc.primary.raises
\* the fallback runs only in the except block of the primary
FallbackRaised(doc) == doc.primary.raises /\ doc.fallback.raises

\* text after the pdfplumber block
PrimaryText(doc) == PagesText(doc.pages, doc.primary.done)

\* the page texts the PyPDF2 block extracts
FallbackText(doc) == PagesText(doc.pages, doc.fallback.done)

\* extract_text_from_pdf: the PyPDF2 block appends to the text the pdfplumber
\* block left
ExtractTextFromPdf(doc) ==
    Strip(IF PrimaryRaised(doc) THEN PrimaryText(doc) \o FallbackText(doc)
          ELSE PrimaryText(doc))

\* the text process_url extracts from what was fetched (the HTML text is the
\* output of BeautifulSoup, an input here)
ExtractedText(fetched) ==
    IF fetched.type = "pdf" THEN ExtractTextFromPdf(fetched.content) ELSE fetched.content

\* the vector_data dictionary of a chunk; has_values tells whether the
\* 'values' key is present, values is the length of the embedding
VectorData(chunk, url, embedded) ==
    [id         |-> chunk.chunk_id,
     metadata   |-> [text |-> chunk.text, source |-> chunk.source, url |-> url,
                     chunk_index |-> chunk.chunk_index, start_char |-> chunk.start_char,
                     end_char |-> chunk.end_char],
     has_values |-> embedded,
     values     |-> IF embedded THEN EmbeddingDim ELSE 0]

RECURSIVE CreateVectors(_, _, _, _, _)
\* the "Create vectors" loop of process_url, from chunk i on; failing is the
\* set of chunk indices for which generate_embedding returns []
CreateVectors(chs, i, url, generate_embeddings, failing) ==
    IF i > Len(chs) THEN <<>>
    ELSE (IF generate_embeddings
          THEN (IF chs[i].chunk_index \in failing THEN <<>>
                ELSE <<VectorData(chs[i], url, TRUE)>>)
          ELSE <<VectorData(chs[i], url, FALSE)>>)
            \o CreateVectors(chs, i + 1, url, generate_embeddings, failing)

RECURSIVE EmbeddingCalls(_, _, _)
\* the chunk indices generate_embedding is called for by the "Create vectors"
\* loop, in call order
EmbeddingCalls(chs, i, generate_embeddings) ==
    IF i > Len(chs) THEN <<>>
    ELSE (IF generate_embeddings THEN <<chs[i].chunk_index>> ELSE <<>>)
            \o EmbeddingCalls(chs, i + 1, generate_embeddings)

\* the chunks process_url makes of what was fetched
ChunksOf(url, fetched, size, overlap) ==
    IF fetched.type = "none" THEN <<>>
    ELSE IF Len(ExtractedText(fetched)) = 0 THEN <<>>
    ELSE ChunkText(ExtractedText(fetched), url, size, overlap)

\* mutant: the vectors are written unfiltered
WithValues_All(vs) == vs

RECURSIVE WithValues(_)
\* [v for v in self.vectors if 'values' in v]
WithValues(vs) ==
    IF Len(vs) = 0 THEN <<>>
    ELSE (IF vs[1].has_values THEN <<vs[1]>> ELSE <<>>) \o WithValues(Tail(vs))

ScrapeChunkSizes == {2}
ScrapeOverlaps == {10}
EmbeddingFailures == {{}, {0}, {1}}

InitScrape ==
    /\ chunk_size \in ScrapeChunkSizes
    /\ chunk_overlap \in ScrapeOverlaps
    /\ ScraperIdle
    /\ ck_pc = "idle"
    /\ text = <<>>
    /\ sentences = <<>>
    /\ si = 1
    /\ current_chunk = <<>>
    /\ chunk_index = 0
    /\ start_char = 0
    /\ chunks = <<>>
    /\ UploaderIdle
    /\ FetcherIdle
    /\ MainIdle
    /\ ToolsIdle

\* process_url(url, generate_embeddings): the vectors it returns, and what it
\* saw on the way
ProcessUrl(url, fetched, generate_embeddings, failing, size, overlap) ==
    LET chs == ChunksOf(url, fetched, size, overlap)
        pdf == fetched.type = "pdf"
        new == CreateVectors(chs, 1, url, generate_embeddings, failing)
    IN  [vectors |-> new,
         seen    |-> [url             |-> url,
                      fetched         |-> fetched.type,
                      primary_raised  |-> pdf /\ PrimaryRaised(fetched.content),
                      primary_text    |-> IF pdf THEN PrimaryText(fetched.content) ELSE <<>>,
                      fallback_raised |-> pdf /\ FallbackRaised(fetched.content),
                      text            |-> IF fetched.type = "none" THEN <<>>
                                          ELSE ExtractedText(fetched),
                      n_chunks        |-> Len(chs),
                      n_vectors       |-> Len(new),
                      chunk_indices   |-> [i \in 1..Len(chs) |-> chs[i].chunk_index],
                      generate_embeddings |-> generate_embeddings,
                      failed          |-> IF generate_embeddings
                                          THEN {k \in failing : k < Len(chs)} ELSE {},
                      embedding_calls |-> EmbeddingCalls(chs, 1, generate_embeddings),
                      requests        |-> 0,
                      status          |-> 0,
                      fallback_text   |-> IF pdf /\ PrimaryRaised(fetched.content)
                                          THEN FallbackText(fetched.content) ELSE <<>>],
         log     |-> [url       |-> url,
                      text      |-> IF fetched.type = "none" THEN <<>>
                                    ELSE ExtractedText(fetched),
                      chunk_ids |-> [i \in 1..Len(chs) |-> chs[i].chunk_id],
                      first     |-> 0,
                      n_vectors |-> Len(new)]]

\* the URL strings the names of Urls stand for
UrlText(url) ==
    IF url = "u1" THEN <<"https://portal.amfiindia.com/spages/13885", ".pdf">>
    ELSE <<"https://portal.amfiindia.com/spages/13885">>

ScrapeContentTypes == {<<"application/", "pdf">>, <<"text/", "html">>, <<"text/", "plain">>}
ScrapeResponses ==
    {[outcome |-> "raised"],
     [outcome |-> "response", status |-> 300, content_type |-> <<"text/", "html">>],
     [outcome |-> "response", status |-> 404, content_type |-> <<"text/", "html">>]}
        \cup [outcome : {"response"}, status : {200}, content_type : ScrapeContentTypes]

\* for url in urls: process_url(url) calls fetch_url(url); the new call has
\* seen nothing yet
ScrapeBegin ==
    /\ sc_pc = "scraping"
    /\ sc_calls < MaxCalls
    /\ ft_pc = "idle"
    /\ \E url \in Urls : ft_url' = UrlText(url)
    /\ ft_pc' = "call"
    /\ sc_last' = NoCall
    /\ UNCHANGED <<ft_response, ft_requests, ft_result>>
    /\ UNCHANGED <<vectors, sc_pc, sc_calls, sc_log, pinecone_data>>
    /\ UNCHANGED <<configVars, chunkVars, uploadVars, serviceVars, mainVars, toolVars>>

\* requests.get inside the fetch_url call of process_url
ScrapeGet ==
    /\ sc_pc = "scraping"
    /\ sc_calls < MaxCalls
    /\ ft_pc = "call"
    /\ ft_requests' = ft_requests + 1
    /\ \E r \in ScrapeResponses :
          /\ ft_response' = r
          /\ ft_pc' = IF r.outcome = "raised" THEN "done" ELSE "status"
    /\ UNCHANGED <<ft_url, ft_result>>
    /\ UNCHANGED <<configVars, chunkVars, scrapeVars, uploadVars, serviceVars, mainVars, toolVars>>

\* the rest of one iteration of the loop of scrape_urls, once fetch_url has
\* returned: the rest of process_url, then self.vectors.extend(vectors)
ScrapeUrl ==
    /\ sc_pc = "scraping"
    /\ sc_calls < MaxCalls
    /\ ft_pc = "done"
    /\ \E url \in Urls, fetched \in Fetched, generate_embeddings \in BOOLEAN :
       \E failing \in IF generate_embeddings THEN EmbeddingFailures ELSE {{}} :
          /\ UrlText(url) = ft_url
          /\ fetched.type = ft_result.type
          /\ LET r == ProcessUrl(url, fetched, generate_embeddings, failing,
                                 chunk_size, chunk_overlap)
             IN  /\ vectors' = vectors \o r.vectors
                 /\ sc_last' = [r.seen EXCEPT !.requests = ft_requests,
                                              !.status = IF ft_response.outcome = "raised"
                                                         THEN 0 ELSE ft_response.status]
                 /\ sc_log' = Append(sc_log, [r.log EXCEPT !.first = Len(vectors) + 1])
    /\ sc_calls' = sc_calls + 1
    /\ ft_pc' = "idle"
    /\ ft_url' = <<>>
    /\ ft_response' = NoResponse
    /\ ft_requests' = 0
    /\ ft_result' = [type |-> "none"]
    /\ UNCHANGED <<sc_pc, pinecone_data>>
    /\ UNCHANGED <<configVars, chunkVars, uploadVars, serviceVars, mainVars, toolVars>>

\* save_to_pinecone_json, after scrape_urls has returned
SaveToPineconeJson ==
    /\ sc_pc = "scraping"
    /\ ft_pc = "idle"
    /\ LET vectors_with_embeddings == WithValues(vectors)
       IN  pinecone_data' =
              [written       |-> TRUE,
               vectors       |-> vectors_with_embeddings,
               total_vectors |-> Len(vectors_with_embeddings),
               total_chunks  |-> Len(vectors),
               sources       |-> {vectors_with_embeddings[i].metadata.source
                                     : i \in 1..Len(vectors_with_embeddings)}]
    /\ sc_pc' = "saved"
    /\ UNCHANGED <<vectors, sc_calls, sc_last, sc_log>>
    /\ UNCHANGED <<configVars, chunkVars, uploadVars, serviceVars, fetchVars, mainVars, toolVars>>

NextScrape ==
    \/ ScrapeBegin \/ ScrapeGet \/ FetchRaiseForStatus \/ FetchClassify \/ ScrapeUrl
    \/ SaveToPineconeJson

SpecScrape == InitScrape /\ [][NextScrape]_vars

(***************************************************************************)
(* Claims about the scraper (checked under SpecScrape).                    *)
(***************************************************************************)
\* C3: whatever URLs were scraped (a URL twice, several scrape_urls calls),
\* the records save_to_pinecone_json writes have pairwise distinct ids.
C3_WrittenIdsDistinct ==
    pinecone_data.written =>
        \A i, j \in 1..Len(pinecone_data.vectors) :
            i # j => pinecone_data.vectors[i].id # pinecone_data.vectors[j].id

\* the records of the k-th process_url call, as they are in self.vectors
CallRecords(k) == SubSeq(vectors, sc_log[k].first, sc_log[k].first + sc_log[k].n_vectors - 1)

\* C13: the chunks of one chunk_text call carry the chunk_index values
\* 0, 1, ..., n-1 in emission order, and self.vectors holds the documents'
\* records in URL submission order, each document's records in chunk order.
C13_IndicesAndOrder ==
    /\ sc_last.chunk_indices = [j \in 1..sc_last.n_chunks |-> j - 1]
    /\ \A k \in 1..Len(sc_log) :
          /\ sc_log[k].first = IF k = 1 THEN 1 ELSE sc_log[k - 1].first + sc_log[k - 1].n_vectors
          /\ sc_log[k].first + sc_log[k].n_vectors - 1 <= Len(vectors)
          /\ \A p \in 1..sc_log[k].n_vectors :
                /\ CallRecords(k)[p].metadata.source = sc_log[k].url
                /\ p > 1 => CallRecords(k)[p - 1].metadata.chunk_index
                                < CallRecords(k)[p].metadata.chunk_index
    /\ sc_calls = Len(sc_log)
    /\ Len(sc_log) > 0 =>
          Len(vectors) = sc_log[Len(sc_log)].first + sc_log[Len(sc_log)].n_vectors - 1

C13_Witness ==
    /\ Len(sc_log) = 2
    /\ sc_log[1].url = "u2"
    /\ sc_log[2].url = "u1"
    /\ sc_log[1].n_vectors = 2
    /\ sc_log[2].n_vectors = 2
    /\ sc_last.n_chunks = 2

\* the chunk indices of the last process_url call whose embedding did not fail
EmbeddedIndices ==
    SelectSeq(sc_last.chunk_indices, LAMBDA i : i \notin sc_last.failed)

\* the records of the last process_url call, as they are at the end of
\* self.vectors
LastRecords == SubSeq(vectors, Len(vectors) - sc_last.n_vectors + 1, Len(vectors))

\* C17: a chunk gets into the written batch only if generate_embedding
\* returned a non-empty vector for it.  With generate_embeddings, the call is
\* made once for each chunk, in order, whatever failed before, and the records
\* are those of the chunks whose embedding did not fail; without it no call is
\* made and the records have no values; the file holds exactly the records
\* that have values.
C17_OnlyEmbeddedWritten ==
    /\ sc_last.n_vectors <= Len(vectors)
    /\ IF sc_last.generate_embeddings
       THEN /\ sc_last.embedding_calls = sc_last.chunk_indices
            /\ Len(LastRecords) = Len(EmbeddedIndices)
            /\ \A p \in 1..Len(LastRecords) :
                  /\ LastRecords[p].metadata.chunk_index = EmbeddedIndices[p]
                  /\ LastRecords[p].has_values
                  /\ LastRecords[p].values > 0
       ELSE /\ sc_last.embedding_calls = <<>>
            /\ Len(LastRecords) = sc_last.n_chunks
            /\ \A p \in 1..Len(LastRecords) : ~LastRecords[p].has_values
    /\ pinecone_data.written =>
          /\ \A p \in 1..Len(pinecone_data.vectors) :
                pinecone_data.vectors[p].has_values /\ pinecone_data.vectors[p].values > 0
          /\ pinecone_data.total_vectors
                = Cardinality({p \in 1..Len(vectors) : vectors[p].has_values})

\* a first URL with a failed embedding, then a URL processed without
\* embeddings, then the save
C17_Witness ==
    /\ pinecone_data.written
    /\ Len(sc_log) = 2
    /\ Len(sc_log[1].chunk_ids) = 2
    /\ sc_log[1].n_vectors = 1
    /\ vectors[1].metadata.chunk_index = 1
    /\ ~sc_last.generate_embeddings
    /\ sc_last.n_vectors = 2
    /\ pinecone_data.total_vectors = 1
    /\ pinecone_data.total_chunks = 3

\* the fetch of the last process_url call failed as the claim understands it:
\* requests.get raised (status 0 here) or the status is not 2xx
FetchFailed == sc_last.url # "" /\ (sc_last.status < 200 \/ sc_last.status > 299)

\* C18: a URL whose fetch fails (timeout, network error, non-2xx status) is
\* requested once, yields no record, and leaves scrape_urls going, so that
\* self.vectors is what it would be without the URL.
C18_FailedFetchSkipped ==
    FetchFailed =>
        /\ sc_last.requests = 1
        /\ sc_last.n_vectors = 0
        /\ sc_log[Len(sc_log)].n_vectors = 0
        /\ sc_log[Len(sc_log)].first = Len(vectors) + 1
        /\ sc_pc \in {"scraping", "saved"}

\* the identifiers of the records of the k-th process_url call
RecordIds(k) == [p \in 1..sc_log[k].n_vectors |-> CallRecords(k)[p].id]

\* two process_url calls on the same URL that extracted the same text
SameDocument(k, l) == sc_log[k].url = sc_log[l].url /\ sc_log[k].text = sc_log[l].text

\* C19 (as claimed): two runs on the same URL with the same extracted text and
\* configuration yield identical record identifier sequences, whatever the
\* embeddings and the URLs processed before.
C19_RecordIdsRepeat ==
    \A k, l \in 1..Len(sc_log) : SameDocument(k, l) => RecordIds(k) = RecordIds(l)

\* C19 (amended): the identifier of a chunk, and of its record, is
\* md5(url)[:8] + "_chunk_" + chunk index; two runs on the same URL with the
\* same extracted text yield identical chunk identifier sequences, whatever
\* was processed before; their record identifier sequences are identical when
\* no embedding failed, a failed embedding leaving the chunk's identifier out.
C19_IdsDeterministic ==
    /\ \A k \in 1..Len(sc_log) :
          /\ \A i \in 1..Len(sc_log[k].chunk_ids) :
                sc_log[k].chunk_ids[i] = <<Md5Prefix(sc_log[k].url), "_chunk_", i - 1>>
          /\ \A p \in 1..sc_log[k].n_vectors :
                /\ CallRecords(k)[p].id
                      = <<Md5Prefix(CallRecords(k)[p].metadata.url), "_chunk_",
                          CallRecords(k)[p].metadata.chunk_index>>
                /\ CallRecords(k)[p].metadata.url = sc_log[k].url
                /\ CallRecords(k)[p].metadata.chunk_index < Len(sc_log[k].chunk_ids)
    /\ \A k, l \in 1..Len(sc_log) :
          SameDocument(k, l) =>
              /\ sc_log[k].chunk_ids = sc_log[l].chunk_ids
              /\ (/\ sc_log[k].n_vectors = Len(sc_log[k].chunk_ids)
                  /\ sc_log[l].n_vectors = Len(sc_log[l].chunk_ids))
                    => RecordIds(k) = RecordIds(l)

\* the same document twice, after nothing and after itself, with embeddings
\* and without, two chunks each time
C19_Witness ==
    /\ Len(sc_log) = 2
    /\ SameDocument(1, 2)
    /\ Len(sc_log[1].chunk_ids) = 2
    /\ RecordIds(1) = sc_log[1].chunk_ids
    /\ RecordIds(2) = sc_log[1].chunk_ids
    /\ vectors[1].has_values
    /\ ~vectors[3].has_values

\* C22: the text extract_text_from_pdf returns comes from one extraction
\* method: the primary extractor's page texts when it did not raise, and the
\* fallback extractor's page texts only when the primary raised (also after it
\* had extracted pages) and the fallback did not.
C22_OneExtractionMethod ==
    (sc_last.fetched = "pdf" /\ ~sc_last.fallback_raised) =>
        sc_last.text = Strip(IF sc_last.primary_raised THEN sc_last.fallback_text
                             ELSE sc_last.primary_text)

\* C10: when both PDF extractors fail on a document (also when the primary one
\* raised after it had extracted pages), extract_text_from_pdf returns empty
\* text and process_url yields no chunk and no record for the URL.
C10_BothFailedYieldsNothing ==
    (sc_last.fetched = "pdf" /\ sc_last.fallback_raised) =>
        /\ sc_last.text = <<>>
        /\ sc_last.n_chunks = 0
        /\ sc_last.n_vectors = 0

(***************************************************************************)
(* The uploaders and the index service.                                    *)
(*                                                                         *)
(* A record is [id, values, metadata]: values is the length of the         *)
(* embedding, metadata is "absent" when the record has no 'metadata' key.  *)
(* The service lists an index while it is "ready" or "deleting"; an index  *)
(* that create_index accepted is "creating" until the service lists it.    *)
(* Whether a create_index, delete_index or upsert call raises is the       *)
(* service's choice.                                                       *)
(***************************************************************************)
MaxRecords == 3
MaxBatchSize == 2
DefaultDimension == 384
RecreateDimension == 384
DefaultBatchSize == 100

Dimensions == {384, 1024}
Scripts == {"simple", "interactive", "recreate"}
Terminal == {"done", "raised", "returned"}

RecordLists ==
    UNION {{[i \in 1..n |-> [id |-> i, values |-> f[i][1], metadata |-> f[i][2]]]
               : f \in [1..n -> Dimensions \X {"absent", "md"}]}
              : n \in 0..MaxRecords}

\* the 250 records of the specification's upload scenario
ScenarioRecords == [i \in 1..250 |-> [id |-> i, values |-> 384, metadata |-> "md"]]

Listed(service) == service.state \in {"ready", "deleting"}

\* formatted_vec; vec.get("metadata", {})
FormatVector(vec) ==
    [id       |-> vec.id,
     values   |-> vec.values,
     metadata |-> IF vec.metadata = "absent" THEN "{}" ELSE vec.metadata]

\* mutant: the slice of a batch ends one record early
FormattedBatch_Short(vecs, i, size) ==
    LET batch == SubSeq(vecs, i + 1, Min(i + size, Len(vecs)) - 1)
    IN  [k \in 1..Len(batch) |-> FormatVector(batch[k])]

\* formatted_batch of batch = vectors[i:i + batch_size]
FormattedBatch(vecs, i, size) ==
    LET batch == SubSeq(vecs, i + 1, Min(i + size, Len(vecs)))
    IN  [k \in 1..Len(batch) |-> FormatVector(batch[k])]

\* mutant: the index is always created with the default dimension
CreateDimension_Default(script, vecs) == DefaultDimension

\* the dimension passed to create_index
CreateDimension(script, vecs) ==
    IF script = "recreate" THEN RecreateDimension
    ELSE IF Len(vecs) > 0 THEN vecs[1].values ELSE DefaultDimension

Call(op, dimension, batch) == [op |-> op, dimension |-> dimension, batch |-> batch]

InitUpload ==
    /\ up_script \in Scripts
    /\ \/ /\ up_vectors \in RecordLists
          /\ batch_size \in IF up_script = "recreate" THEN {DefaultBatchSize}
                           ELSE 1..MaxBatchSize
       \/ /\ up_vectors = ScenarioRecords
          /\ batch_size = DefaultBatchSize
    /\ svc \in {[state |-> "absent", dimension |-> 0]}
                  \cup [state : {"ready"}, dimension : Dimensions]
    /\ svc_listed = Listed(svc)
    /\ up_pc = "start"
    /\ up_i = 0
    /\ uploaded = 0
    /\ up_existing = FALSE
    /\ up_failed = "none"
    /\ up_calls = <<>>
    /\ up_out = <<>>
    /\ ScraperIdle
    /\ FetcherIdle
    /\ MainIdle
    /\ ToolsIdle
    /\ chunk_size = 1
    /\ chunk_overlap = 0
    /\ ck_pc = "idle"
    /\ text = <<>>
    /\ sentences = <<>>
    /\ si = 1
    /\ current_chunk = <<>>
    /\ chunk_index = 0
    /\ start_char = 0
    /\ chunks = <<>>

UploadRest == <<configVars, chunkVars, scrapeVars, fetchVars, mainVars, toolVars>>

\* upload_to_pinecone: existing_indexes = [...]; if index_name not in existing_indexes
UpCheckIndex ==
    /\ up_pc = "start"
    /\ up_script \in {"simple", "interactive"}
    /\ up_existing' = Listed(svc)
    /\ up_pc' = IF Listed(svc) THEN "upload"
                ELSE IF up_script = "interactive" THEN "ask" ELSE "create"
    /\ UNCHANGED <<up_script, up_vectors, batch_size, up_i, uploaded, up_failed, up_calls, up_out>>
    /\ UNCHANGED <<serviceVars, UploadRest>>

\* upload_to_pinecone.py: create = input(...); if create == 'y' ... else return
UpAsk ==
    /\ up_pc = "ask"
    /\ \/ up_pc' = "create"
       \/ up_pc' = "returned"
    /\ UNCHANGED <<up_script, up_vectors, batch_size, up_i, uploaded, up_existing, up_failed,
                   up_calls, up_out>>
    /\ UNCHANGED <<serviceVars, UploadRest>>

\* recreate_index_and_upload: load the file, return if it holds no vectors,
\* then list the indexes
UpRecreateStart ==
    /\ up_pc = "start"
    /\ up_script = "recreate"
    /\ IF ~main_input.file_loads
       THEN up_pc' = "raised" /\ up_failed' = "load" /\ UNCHANGED up_existing
       ELSE IF Len(up_vectors) = 0
       THEN up_pc' = "returned" /\ UNCHANGED <<up_existing, up_failed>>
       ELSE /\ up_existing' = Listed(svc)
            /\ up_pc' = IF Listed(svc) THEN "delete" ELSE "create"
            /\ UNCHANGED up_failed
    /\ UNCHANGED <<up_script, up_vectors, batch_size, up_i, uploaded, up_calls, up_out>>
    /\ UNCHANGED <<serviceVars, UploadRest>>

\* pc.delete_index(index_name)
UpDeleteIndex ==
    /\ up_pc = "delete"
    /\ up_calls' = Append(up_calls, Call("delete_index", 0, <<>>))
    /\ \/ /\ svc' = [svc EXCEPT !.state = "deleting"]
          /\ up_pc' = "wait_delete"
          /\ UNCHANGED up_failed
       \/ /\ up_pc' = "raised"
          /\ up_failed' = "delete_index"
          /\ UNCHANGED svc
    /\ UNCHANGED <<up_script, up_vectors, batch_size, up_i, uploaded, up_existing, up_out>>
    /\ UNCHANGED <<svc_listed, UploadRest>>

\* while index_name in [index.name for index in pc.list_indexes()]
UpPollDelete ==
    /\ up_pc = "wait_delete"
    /\ up_pc' = IF Listed(svc) THEN "sleep_delete" ELSE "create"
    /\ UNCHANGED <<up_script, up_vectors, batch_size, up_i, uploaded, up_existing, up_failed,
                   up_calls, up_out>>
    /\ UNCHANGED <<serviceVars, UploadRest>>

\* time.sleep(2) in the deletion loop
UpSleepDelete ==
    /\ up_pc = "sleep_delete"
    /\ up_pc' = "wait_delete"
    /\ UNCHANGED <<up_script, up_vectors, batch_size, up_i, uploaded, up_existing, up_failed,
                   up_calls, up_out>>
    /\ UNCHANGED <<serviceVars, UploadRest>>

\* pc.create_index(name=index_name, dimension=dimension, ...)
UpCreateIndex ==
    /\ up_pc = "create"
    /\ LET dimension == CreateDimension(up_script, up_vectors)
       IN  /\ up_calls' = Append(up_calls, Call("create_index", dimension, <<>>))
           /\ \/ /\ svc' = [state |-> "creating", dimension |-> dimension]
                 /\ up_pc' = "wait_create"
                 /\ UNCHANGED up_failed
              \/ /\ up_pc' = "raised"
                 /\ up_failed' = "create_index"
                 /\ UNCHANGED svc
    /\ UNCHANGED <<up_script, up_vectors, batch_size, up_i, uploaded, up_existing, up_out>>
    /\ UNCHANGED <<svc_listed, UploadRest>>

\* while index_name not in [index.name for index in pc.list_indexes()]
UpPollCreate ==
    /\ up_pc = "wait_create"
    /\ up_pc' = IF Listed(svc) THEN "upload" ELSE "sleep_create"
    /\ UNCHANGED <<up_script, up_vectors, batch_size, up_i, uploaded, up_existing, up_failed,
                   up_calls, up_out>>
    /\ UNCHANGED <<serviceVars, UploadRest>>

\* time.sleep(...) in the creation loop
UpSleepCreate ==
    /\ up_pc = "sleep_create"
    /\ up_pc' = "wait_create"
    /\ UNCHANGED <<up_script, up_vectors, batch_size, up_i, uploaded, up_existing, up_failed,
                   up_calls, up_out>>
    /\ UNCHANGED <<serviceVars, UploadRest>>

\* one iteration of for i in range(0, total_vectors, batch_size)
UpUpsert ==
    /\ up_pc = "upload"
    /\ up_i < Len(up_vectors)
    /\ LET formatted_batch == FormattedBatch(up_vectors, up_i, batch_size)
       IN  /\ up_calls' = Append(up_calls, Call("upsert", 0, formatted_batch))
           /\ \/ /\ uploaded' = uploaded + Len(formatted_batch)
                 /\ up_out' = Append(up_out, <<"ok", uploaded + Len(formatted_batch)>>)
                 /\ up_i' = up_i + batch_size
                 /\ UNCHANGED <<up_pc, up_failed>>
              \/ /\ up_out' = Append(up_out, <<"error">>)
                 /\ up_pc' = "raised"
                 /\ up_failed' = "upsert"
                 /\ UNCHANGED <<uploaded, up_i>>
    /\ UNCHANGED <<up_script, up_vectors, batch_size, up_existing>>
    /\ UNCHANGED <<serviceVars, UploadRest>>

\* after the loop: print the success line
UpFinish ==
    /\ up_pc = "upload"
    /\ up_i >= Len(up_vectors)
    /\ up_out' = Append(up_out, <<"success", uploaded>>)
    /\ up_pc' = "done"
    /\ UNCHANGED <<up_script, up_vectors, batch_size, up_i, uploaded, up_existing, up_failed,
                   up_calls>>
    /\ UNCHANGED <<serviceVars, UploadRest>>

\* the service lists the index it was asked to create
SvcReady ==
    /\ svc.state = "creating"
    /\ svc' = [svc EXCEPT !.state = "ready"]
    /\ svc_listed' = TRUE
    /\ UNCHANGED <<uploadVars, UploadRest>>

\* the service no longer lists the index it was asked to delete
SvcGone ==
    /\ svc.state = "deleting"
    /\ svc' = [state |-> "absent", dimension |-> 0]
    /\ UNCHANGED <<svc_listed, uploadVars, UploadRest>>

UploaderStep ==
    \/ UpCheckIndex \/ UpAsk \/ UpRecreateStart \/ UpDeleteIndex \/ UpPollDelete
    \/ UpSleepDelete \/ UpCreateIndex \/ UpPollCreate \/ UpSleepCreate \/ UpUpsert \/ UpFinish

NextUpload == UploaderStep \/ SvcReady \/ SvcGone

SpecUpload == InitUpload /\ [][NextUpload]_vars

\* the uploader is a sequential program that always takes its next step; the
\* service owes nothing
SpecUploadFair == SpecUpload /\ WF_vars(UploaderStep)

(***************************************************************************)
(* Claims about the uploaders (checked under SpecUpload, C5 under          *)
(* SpecUploadFair).                                                        *)
(***************************************************************************)
IsUpsert(c) == c.op = "upsert"
IsCreate(c) == c.op = "create_index"
UpsertCalls == SelectSeq(up_calls, IsUpsert)
CreateCalls == SelectSeq(up_calls, IsCreate)

RECURSIVE ConcatBatches(_)
ConcatBatches(calls) ==
    IF Len(calls) = 0 THEN <<>> ELSE calls[1].batch \o ConcatBatches(Tail(calls))

\* the number of batches of n records in batches of b
BatchCount(n, b) == (n + b - 1) \div b

\* C4: in upload_to_pinecone, when the index is not listed at the start and
\* the upload proceeds, create_index is called exactly once, with the length
\* of the first record's values as dimension, before any upsert, and an upsert
\* is only issued once the index has been listed.
C4_CreateBeforeUpsert ==
    (up_script \in {"simple", "interactive"} /\ up_pc \notin {"start", "idle"} /\ ~up_existing) =>
        /\ Len(CreateCalls) <= 1
        /\ \A j \in 1..Len(CreateCalls) :
              Len(up_vectors) > 0 => CreateCalls[j].dimension = up_vectors[1].values
        /\ up_pc \in {"wait_create", "sleep_create", "upload", "done", "raised"} =>
              (Len(CreateCalls) = 1 /\ IsCreate(up_calls[1]))
        /\ (up_pc \in {"upload", "done"} \/ Len(UpsertCalls) > 0) => svc_listed

C4_Witness ==
    /\ up_script = "simple"
    /\ ~up_existing
    /\ up_pc = "done"
    /\ Len(UpsertCalls) = 2
    /\ up_calls[1] = Call("create_index", 1024, <<>>)

\* C5: after create_index or delete_index the uploader polls the listing a
\* bounded number of times only: whatever the service does, the upload
\* function eventually stops polling and terminates.
C5_PollingTerminates == <>(up_pc \in Terminal)

\* the counts the uploader printed, in order
PrintedCounts == SelectSeq(up_out, LAMBDA line : Len(line) = 2)

\* C6: when the upsert of batch k fails, no later batch is upserted and batch k
\* is not retried, the failure propagates, and the uploaded count reported is
\* the number of records of batches 1..k-1.
C6_FailFastReportsCount ==
    (up_pc = "raised" /\ up_failed = "upsert") =>
        LET k == Len(UpsertCalls)
        IN  /\ \A j \in 1..k :
                  UpsertCalls[j].batch = FormattedBatch(up_vectors, (j - 1) * batch_size, batch_size)
            /\ Len(PrintedCounts) > 0
            /\ PrintedCounts[Len(PrintedCounts)][2] = (k - 1) * batch_size

MixedDimensions ==
    \E i, j \in 1..Len(up_vectors) : up_vectors[i].values # up_vectors[j].values

DiffersFromIndex ==
    /\ up_script \in {"simple", "interactive"}
    /\ up_existing
    /\ \E i \in 1..Len(up_vectors) : up_vectors[i].values # svc.dimension

\* C7: when the records do not all have the same embedding length, or their
\* length differs from the dimension of the existing index, the uploader
\* reports a configuration error before it issues any create_index,
\* delete_index or upsert call.
C7_MismatchRejectedFirst ==
    (MixedDimensions \/ DiffersFromIndex) => (up_calls = <<>> /\ up_pc # "done")

\* C8: a fully successful upload of n records in batches of b issues exactly
\* ceil(n/b) upsert calls, all of b records but the last, which has
\* n - (ceil(n/b) - 1) * b, and the batches in call order are the records in
\* input order (as formatted for the call).
C8_BatchesPartitionRecords ==
    up_pc = "done" =>
        LET n == Len(up_vectors)
            k == BatchCount(n, batch_size)
        IN  /\ Len(UpsertCalls) = k
            /\ \A j \in 1..Len(UpsertCalls) :
                  Len(UpsertCalls[j].batch) =
                      IF j < k THEN batch_size ELSE n - (k - 1) * batch_size
            /\ ConcatBatches(UpsertCalls) = [i \in 1..n |-> FormatVector(up_vectors[i])]

C8_Witness ==
    /\ up_pc = "done"
    /\ Len(up_vectors) = 250
    /\ batch_size = 100
    /\ Len(UpsertCalls) = 3
    /\ Len(UpsertCalls[3].batch) = 50

IsDelete(c) == c.op = "delete_index"
DeleteCalls == SelectSeq(up_calls, IsDelete)

\* recreate_index_and_upload deletes only with a non-empty record list, calls
\* create_index only when the index is not listed, upserts only when it is
RecreateCallOrder ==
    up_script = "recreate" =>
        /\ (up_pc = "delete" \/ Len(DeleteCalls) > 0) => Len(up_vectors) > 0
        /\ up_pc = "create" => ~Listed(svc)
        /\ (up_pc = "upload" \/ Len(UpsertCalls) > 0) =>
              (Len(CreateCalls) = 1 /\ svc_listed /\ svc.state = "ready")

\* C23: recreate_index_and_upload deletes an existing index only after it has
\* loaded a non-empty record list, calls create_index only once the old index
\* is no longer listed, upserts only once the new index is listed, and creates
\* the new index with the dimension of the loaded records' embeddings.
C23_RecreateKeepsUsableIndex ==
    /\ RecreateCallOrder
    /\ up_script = "recreate" =>
          \A j \in 1..Len(CreateCalls) :
              \A i \in 1..Len(up_vectors) : CreateCalls[j].dimension = up_vectors[i].values


(***************************************************************************)
(* main() of the three uploader scripts.                                   *)
(*                                                                         *)
(* main_input tells whether the API key and the index name are given (on   *)
(* the command line, or at the prompt of upload_to_pinecone.py), whether   *)
(* the JSON file exists and whether it loads.  sys.exit(1) ends the        *)
(* process with status 1; a main() that returns ends it with status 0.     *)
(***************************************************************************)
MainInputs == [api_key : BOOLEAN, index_name : BOOLEAN, file_exists : BOOLEAN,
               file_loads : BOOLEAN]

InitMain ==
    /\ up_script \in Scripts
    /\ main_pc = IF up_script = "interactive" THEN "file" ELSE "args"
    /\ main_input \in MainInputs
    /\ exit_status = -1
    /\ up_vectors \in RecordLists
    /\ batch_size \in IF up_script = "interactive" THEN (1..MaxBatchSize) \cup {DefaultBatchSize}
                     ELSE {DefaultBatchSize}
    /\ svc \in {[state |-> "absent", dimension |-> 0]}
                  \cup [state : {"ready"}, dimension : Dimensions]
    /\ svc_listed = Listed(svc)
    /\ up_pc = "idle"
    /\ up_i = 0
    /\ uploaded = 0
    /\ up_existing = FALSE
    /\ up_failed = "none"
    /\ up_calls = <<>>
    /\ up_out = <<>>
    /\ ChunkerIdle
    /\ ScraperIdle
    /\ FetcherIdle
    /\ ToolsIdle

MainRest == <<configVars, chunkVars, scrapeVars, serviceVars, fetchVars, toolVars>>

\* sys.exit(1) in the two command line scripts, return in upload_to_pinecone.py
MainFails ==
    /\ main_pc' = "exited"
    /\ exit_status' = IF up_script = "interactive" THEN 0 ELSE 1

\* if len(sys.argv) < 3: ... sys.exit(1)
MainCheckArgs ==
    /\ main_pc = "args"
    /\ IF main_input.api_key /\ main_input.index_name
       THEN main_pc' = "file" /\ UNCHANGED exit_status
       ELSE MainFails
    /\ UNCHANGED <<main_input, uploadVars, MainRest>>

\* if not os.path.exists(json_file)
MainCheckFile ==
    /\ main_pc = "file"
    /\ IF main_input.file_exists
       THEN /\ main_pc' = IF up_script = "recreate" THEN "call" ELSE "load"
            /\ UNCHANGED exit_status
       ELSE MainFails
    /\ UNCHANGED <<main_input, uploadVars, MainRest>>

\* data = load_json_file(json_file); if not vectors
MainLoad ==
    /\ main_pc = "load"
    /\ IF main_input.file_loads /\ Len(up_vectors) > 0
       THEN /\ main_pc' = IF up_script = "interactive" THEN "credentials" ELSE "call"
            /\ UNCHANGED exit_status
       ELSE MainFails
    /\ UNCHANGED <<main_input, uploadVars, MainRest>>

\* upload_to_pinecone.py: api_key = input(...), index_name = input(...)
MainCredentials ==
    /\ main_pc = "credentials"
    /\ IF main_input.api_key /\ main_input.index_name
       THEN main_pc' = "call" /\ UNCHANGED exit_status
       ELSE MainFails
    /\ UNCHANGED <<main_input, uploadVars, MainRest>>

\* the call of the upload function in the try block
MainCall ==
    /\ main_pc = "call"
    /\ up_pc = "idle"
    /\ up_pc' = "start"
    /\ main_pc' = "running"
    /\ UNCHANGED <<main_input, exit_status, MainRest>>
    /\ UNCHANGED <<up_script, up_vectors, batch_size, up_i, uploaded, up_existing, up_failed,
                   up_calls, up_out>>

\* the upload function returned or raised: "completed successfully", or the
\* except block of main()
MainFinish ==
    /\ main_pc = "running"
    /\ up_pc \in Terminal
    /\ IF up_pc = "raised"
       THEN MainFails
       ELSE main_pc' = "exited" /\ exit_status' = 0
    /\ UNCHANGED <<main_input, uploadVars, MainRest>>

MainStep ==
    \/ MainCheckArgs \/ MainCheckFile \/ MainLoad \/ MainCredentials \/ MainCall \/ MainFinish

NextMain == MainStep \/ UploaderStep \/ SvcReady \/ SvcGone

SpecMain == InitMain /\ [][NextMain]_vars

(***************************************************************************)
(* Claims about main() (checked under SpecMain).                           *)
(***************************************************************************)
MissingArgument == ~main_input.api_key \/ ~main_input.index_name

FatalCondition ==
    \/ MissingArgument
    \/ ~main_input.file_exists
    \/ (up_pc = "raised" /\ up_failed \in {"create_index", "upsert"})

\* C12: in the main() of every uploader script a fatal condition (a missing
\* API key or index name, a missing input file, a failed create_index or
\* upsert call) ends the process with a non-zero exit status, and a missing
\* argument is detected before the upload function, hence any call to the
\* index service, is started.
C12_FatalExitsNonZero ==
    /\ (main_pc = "exited" /\ FatalCondition) => exit_status # 0
    /\ MissingArgument => up_pc = "idle"


(***************************************************************************)
(* Further claims about chunk_text (checked under SpecChunk).              *)
(***************************************************************************)
ChunkWords(j) == SplitWords(chunks[j].text)

\* C14: chunk_text loses no sentence: every sentence of the split that is not
\* blank appears (without the whitespace around it) in the text of a returned
\* chunk, and the buffer that remains after the last sentence, if not blank,
\* is the final chunk whatever its length.
C14_NoSentenceLost ==
    ck_pc = "done" =>
        /\ \A i \in 1..Len(sentences) :
              NonBlank(sentences[i]) =>
                  \E j \in 1..Len(chunks) : Contains(chunks[j].text, Strip(sentences[i]))
        /\ NonBlank(current_chunk) =>
              (Len(chunks) > 0 /\ chunks[Len(chunks)].text = Strip(current_chunk))

C14_Witness ==
    /\ ck_pc = "done"
    /\ Len(sentences) = 3
    /\ Len(chunks) = 2
    /\ Len(Strip(current_chunk)) > chunk_size

\* C15: with chunk_overlap > 0, the text of every chunk after the first begins
\* with a non-empty sequence of words that is a suffix of the word sequence
\* of the chunk before it.
C15_OverlapPrefix ==
    (ck_pc = "done" /\ chunk_overlap > 0) =>
        \A j \in 2..Len(chunks) :
            \E k \in 1..Min(Len(ChunkWords(j - 1)), Len(ChunkWords(j))) :
                SubSeq(ChunkWords(j), 1, k)
                    = SubSeq(ChunkWords(j - 1), Len(ChunkWords(j - 1)) - k + 1,
                             Len(ChunkWords(j - 1)))

C15_Witness ==
    /\ ck_pc = "done"
    /\ chunk_overlap = 10
    /\ Len(chunks) = 3
    /\ Len(ChunkWords(1)) = 2
    /\ ChunkWords(2)[1] = ChunkWords(1)[2]

\* C16: chunk_text returns no chunk for a text that is empty or only
\* whitespace, and no chunk it returns has an empty or whitespace-only text,
\* whether closed inside the loop or added after it (a text that ends with
\* punctuation and whitespace has an empty last sentence).
C16_NoEmptyChunk ==
    /\ \A j \in 1..Len(chunks) : NonBlank(chunks[j].text)
    /\ (ck_pc = "done" /\ ~NonBlank(text)) => chunks = <<>>

C16_Witness ==
    /\ ck_pc = "done"
    /\ Len(sentences) = 3
    /\ sentences[3] = <<>>
    /\ Len(chunks) = 2

\* a sentence longer than chunk_size is in the chunk
HoldsLongSentence(j) ==
    \E i \in 1..Len(sentences) :
        Len(sentences[i]) > chunk_size /\ Contains(chunks[j].text, Strip(sentences[i]))

\* C20 (as claimed): every chunk's text has at most chunk_size characters,
\* unless the chunk is one sentence that is itself longer than chunk_size; also
\* for chunks seeded with overlap words.  Stated for chunk_overlap >= 10, where
\* the seed is the last words by design, and with the exception read widely
\* (the chunk holds a sentence longer than chunk_size).
C20_ChunkWithinSize ==
    (ck_pc = "done" /\ chunk_overlap >= 10) =>
        \A j \in 1..Len(chunks) :
            Len(chunks[j].text) <= chunk_size \/ HoldsLongSentence(j)

\* C20 (amended): a chunk's text has more than chunk_size characters only if
\* the chunk holds a single sentence of its own: the first chunk, being one
\* sentence longer than chunk_size, or a later chunk, being the words carried
\* over from the previous chunk followed by one sentence.
C20_OversizeHoldsOneSentence ==
    ck_pc = "done" =>
        \A j \in 1..Len(chunks) :
            Len(chunks[j].text) > chunk_size =>
                IF j = 1
                THEN chunks[1].text = Strip(sentences[1]) /\ Len(sentences[1]) > chunk_size
                ELSE \E i \in 2..Len(sentences) :
                        chunks[j].text =
                            Strip(Join(OverlapWords(ChunkWords(j - 1), chunk_overlap))
                                    \o <<" ">> \o sentences[i])

C20_Witness ==
    /\ ck_pc = "done"
    /\ chunk_overlap = 10
    /\ Len(chunks) = 2
    /\ Len(chunks[2].text) > chunk_size
    /\ \A i \in 1..Len(sentences) : Len(sentences[i]) <= chunk_size


RECURSIVE SentenceWords(_, _)
\* the words of the sentences a..b of the split, in order
SentenceWords(a, b) ==
    IF a > b THEN <<>> ELSE SplitWords(sentences[a]) \o SentenceWords(a + 1, b)

\* the words the buffer of chunk j was started with
SeedWords(j) ==
    IF j = 1 THEN <<>> ELSE OverlapWords(ChunkWords(j - 1), chunk_overlap)

\* C21: in the text of every chunk, adjacent sentences are separated by
\* whitespace: the words of the chunk are the words the buffer was seeded with
\* followed by the words of consecutive whole sentences, no word being the end
\* of one sentence glued to the start of the next.
C21_SentencesSeparated ==
    ck_pc = "done" =>
        \A j \in 1..Len(chunks) :
            \E a \in 1..Len(sentences) : \E b \in a..Len(sentences) :
                ChunkWords(j) = SeedWords(j) \o SentenceWords(a, b)


\* C24: the first chunk of a chunk_text call has start_char = 0; every chunk
\* has 0 <= start_char <= end_char and end_char - start_char >= the length of
\* its text; from a chunk to the next, start_char never decreases and end_char
\* strictly increases.
C24_OffsetsMonotone ==
    /\ Len(chunks) > 0 => chunks[1].start_char = 0
    /\ \A j \in 1..Len(chunks) :
          /\ 0 <= chunks[j].start_char
          /\ chunks[j].start_char <= chunks[j].end_char
          /\ chunks[j].end_char - chunks[j].start_char >= Len(chunks[j].text)
    /\ \A j \in 2..Len(chunks) :
          /\ chunks[j - 1].start_char <= chunks[j].start_char
          /\ chunks[j - 1].end_char < chunks[j].end_char

C24_Witness ==
    /\ ck_pc = "done"
    /\ chunk_overlap = 10
    /\ Len(chunks) = 3
    /\ chunks[2].start_char < chunks[1].end_char
    /\ chunks[3].start_char > chunks[2].start_char
    /\ chunks[3].end_char - chunks[3].start_char > Len(chunks[3].text)


(***************************************************************************)
(* The embedding regeneration scripts.                                     *)
(*                                                                         *)
(* The input is a file save_to_pinecone_json wrote: metadata.total_vectors *)
(* is the number of its vectors.  values is the length of an embedding.    *)
(* Whether an embedding request raises is the choice of the embedding      *)
(* service or model.                                                       *)
(***************************************************************************)
OpenAiDimension == 1024
MpnetDimension == 768

RegenScripts == {"openai", "local"}
ChunkTexts2 == {<<"A", ".">>, <<"A">>}

RegenRecordLists ==
    UNION {{[i \in 1..n |-> [id |-> i, values |-> EmbeddingDim, metadata |-> [text |-> f[i]]]]
               : f \in [1..n -> ChunkTexts2]}
              : n \in 0..MaxRecords}

RegenInputs ==
    UNION {{[vectors  |-> vs,
             metadata |-> [total_vectors |-> Len(vs), total_chunks |-> Len(vs) + skipped]]
               : skipped \in 0..1}
              : vs \in RegenRecordLists}

\* the length of the embeddings the script asks for
NewDimension(script) == IF script = "openai" THEN OpenAiDimension ELSE MpnetDimension

\* new_vec
NewVec(vec, embedding) == [id |-> vec.id, values |-> embedding, metadata |-> vec.metadata]

InitRegen ==
    /\ rg_script \in RegenScripts
    /\ rg_data \in RegenInputs
    /\ rg_pc = "start"
    /\ rg_i = 0
    /\ new_vectors = <<>>
    /\ rg_file = NoOutput
    /\ em_pc = "off"
    /\ em_request = NoRequest
    /\ em_response = NoAnswer
    /\ em_encoded = 0
    /\ ChunkerIdle
    /\ ScraperIdle
    /\ UploaderIdle
    /\ svc = [state |-> "absent", dimension |-> 0]
    /\ svc_listed = FALSE
    /\ FetcherIdle
    /\ MainIdle

RegenRest ==
    <<configVars, chunkVars, scrapeVars, uploadVars, serviceVars, fetchVars, mainVars,
      embedVars>>

\* vectors = data.get('vectors', []); regenerate_embeddings_openai returns when
\* there is none
RegenLoad ==
    /\ rg_pc = "start"
    /\ rg_pc' = IF rg_script = "openai" /\ Len(rg_data.vectors) = 0 THEN "returned" ELSE "loop"
    /\ UNCHANGED <<rg_script, rg_data, rg_i, new_vectors, rg_file>>
    /\ UNCHANGED RegenRest

\* one iteration of for i, vec in enumerate(vectors, 1): the embedding is
\* made and new_vec appended, or the request raises, which the OpenAI script
\* catches (continue) and the other script does not
RegenEmbed ==
    /\ rg_pc = "loop"
    /\ rg_i < Len(rg_data.vectors)
    /\ \/ /\ new_vectors' = Append(new_vectors,
                                   NewVec(rg_data.vectors[rg_i + 1], NewDimension(rg_script)))
          /\ rg_i' = rg_i + 1
          /\ UNCHANGED rg_pc
       \/ /\ rg_script = "openai"
          /\ rg_i' = rg_i + 1
          /\ UNCHANGED <<rg_pc, new_vectors>>
       \/ /\ rg_script = "local"
          /\ rg_pc' = "raised"
          /\ UNCHANGED <<rg_i, new_vectors>>
    /\ UNCHANGED <<rg_script, rg_data, rg_file>>
    /\ UNCHANGED RegenRest

\* data['vectors'] = new_vectors; the two metadata entries; json.dump(data)
RegenSave ==
    /\ rg_pc = "loop"
    /\ rg_i >= Len(rg_data.vectors)
    /\ LET new_dim == IF Len(new_vectors) > 0 THEN new_vectors[1].values ELSE 0
       IN  rg_file' =
              [written  |-> TRUE,
               vectors  |-> new_vectors,
               metadata |-> [total_vectors       |-> rg_data.metadata.total_vectors,
                             total_chunks        |-> rg_data.metadata.total_chunks,
                             embedding_dimension |-> new_dim,
                             embedding_model     |-> rg_script]]
    /\ rg_pc' = "done"
    /\ UNCHANGED <<rg_script, rg_data, rg_i, new_vectors>>
    /\ UNCHANGED RegenRest

NextRegen == RegenLoad \/ RegenEmbed \/ RegenSave

SpecRegen == InitRegen /\ [][NextRegen]_vars

\* C25: the file regenerate_embeddings_openai writes is consistent, also when
\* embedding requests failed: its vectors are the input vectors, with their
\* id and metadata and in their order, none missing, and
\* metadata.total_vectors is the number of vectors in the file.
C25_RegeneratedFileConsistent ==
    (rg_script = "openai" /\ rg_file.written) =>
        /\ Len(rg_file.vectors) = Len(rg_data.vectors)
        /\ \A i \in 1..Len(rg_file.vectors) :
              /\ rg_file.vectors[i].id = rg_data.vectors[i].id
              /\ rg_file.vectors[i].metadata = rg_data.vectors[i].metadata
        /\ rg_file.metadata.total_vectors = Len(rg_file.vectors)


(***************************************************************************)
(* The /embed endpoint of sentence_transformer_api.py.                     *)
(*                                                                         *)
(* A JSON value is [kind, ...]: "absent" stands for a key the object does  *)
(* not have (data.get gives None), a string is a sequence of characters, a *)
(* list is known by its length.  A body is a JSON value or "malformed".    *)
(* Whether model.encode raises is the model's choice.                      *)
(***************************************************************************)
Absent == [kind |-> "absent"]
JsonNull == [kind |-> "null"]
JsonStrings == [kind : {"str"}, value : {<<>>, <<" ">>, <<"A">>, <<" ", "A">>}]
JsonNumbers == [kind : {"int"}, value : {0, 5}]
JsonLists == [kind : {"list"}, len : {0, 1}]
JsonScalars == {JsonNull} \cup JsonStrings \cup JsonNumbers \cup JsonLists
FieldValues == {Absent} \cup JsonScalars
JsonObjects == [kind : {"object"}, text : FieldValues, query : FieldValues]
Bodies == {[kind |-> "malformed"]} \cup JsonScalars \cup JsonObjects
Requests == [is_json : BOOLEAN, body : Bodies]

\* Python's truth value of a JSON value (None for "absent" and null)
Truthy(v) ==
    CASE v.kind = "str" -> Len(v.value) > 0
      [] v.kind = "int" -> v.value # 0
      [] v.kind = "list" -> v.len > 0
      [] v.kind = "object" -> v.text # Absent \/ v.query # Absent
      [] OTHER -> FALSE

\* data.get('text') or data.get('query')
TextOrQuery(data) == IF Truthy(data.text) THEN data.text ELSE data.query

ErrorAnswer(status) == [status |-> status, has_embedding |-> FALSE]

\* the 200 answer: "dimension": len(embedding)
OkAnswer(embedding) ==
    [status |-> 200, has_embedding |-> TRUE, embedding |-> embedding, dimension |-> embedding]

\* the lengths of the vectors model.encode returns (all-MiniLM-L6-v2)
EncodedLengths == {EmbeddingDim}

\* embed(), up to the model.encode call: the answer it returns before the
\* call, or "encode" when it makes the call.  Exceptions (get_json on a
\* malformed body, .get on a value that is no object) end in the except
\* block, which answers 500
BeforeEncode(req) ==
    IF ~req.is_json THEN ErrorAnswer(400)
    ELSE IF req.body.kind = "malformed" THEN ErrorAnswer(500)
    ELSE IF ~Truthy(req.body) THEN ErrorAnswer(400)
    ELSE IF req.body.kind # "object" THEN ErrorAnswer(500)
    ELSE LET txt == TextOrQuery(req.body)
         IN  IF ~Truthy(txt) THEN ErrorAnswer(400)
             ELSE IF txt.kind # "str" \/ Len(Strip(txt.value)) = 0 THEN ErrorAnswer(400)
             ELSE [status |-> 0, has_embedding |-> FALSE]

InitEmbed ==
    /\ em_pc = "serving"
    /\ em_request = NoRequest
    /\ em_response = NoAnswer
    /\ em_encoded = 0
    /\ rg_script = "none"
    /\ rg_data = NoData
    /\ rg_pc = "idle"
    /\ rg_i = 0
    /\ new_vectors = <<>>
    /\ rg_file = NoOutput
    /\ ChunkerIdle
    /\ ScraperIdle
    /\ UploaderIdle
    /\ svc = [state |-> "absent", dimension |-> 0]
    /\ svc_listed = FALSE
    /\ FetcherIdle
    /\ MainIdle

EmbedRest ==
    <<configVars, chunkVars, scrapeVars, uploadVars, serviceVars, fetchVars, mainVars,
      regenVars>>

\* a POST to /embed arrives
EmbedReceive ==
    /\ em_pc \in {"serving", "answered"}
    /\ em_request' \in Requests
    /\ em_response' = NoAnswer
    /\ em_encoded' = 0
    /\ em_pc' = "handling"
    /\ UNCHANGED EmbedRest

\* embed(): the whole handler
Embed ==
    /\ em_pc = "handling"
    /\ LET early == BeforeEncode(em_request)
       IN  IF early.status # 0
           THEN em_response' = early /\ em_encoded' = 0
           ELSE /\ em_encoded' = 1
                /\ \/ \E embedding \in EncodedLengths : em_response' = OkAnswer(embedding)
                   \/ em_response' = ErrorAnswer(500)
    /\ em_pc' = "answered"
    /\ UNCHANGED em_request
    /\ UNCHANGED EmbedRest

NextEmbed == EmbedReceive \/ Embed

SpecEmbed == InitEmbed /\ [][NextEmbed]_vars

\* the value the claim takes the text from: 'text', or 'query' when 'text' is
\* absent or falsy
ClaimedText(body) ==
    IF body.text.kind \in {"absent", "null"} THEN body.query
    ELSE IF body.text.kind = "str" /\ body.text.value = <<>> THEN body.query
    ELSE IF body.text.kind = "int" /\ body.text.value = 0 THEN body.query
    ELSE IF body.text.kind = "list" /\ body.text.len = 0 THEN body.query
    ELSE body.text

\* the request is JSON whose text is a string with a non-whitespace character
ValidRequest(req) ==
    /\ req.is_json
    /\ req.body.kind = "object"
    /\ ClaimedText(req.body).kind = "str"
    /\ \E i \in 1..Len(ClaimedText(req.body).value) : ~IsWs(ClaimedText(req.body).value[i])

\* what holds of every answer of /embed: 200 with an embedding only for a
\* valid request, dimension being the length of the embedding; otherwise 400
\* or 500 without embedding; no model call for a request answered 400
EmbedAnswersSound ==
    em_pc = "answered" =>
        /\ em_response.status \in {200, 400, 500}
        /\ em_response.status = 200 =>
              /\ ValidRequest(em_request)
              /\ em_response.has_embedding
              /\ em_response.dimension = em_response.embedding
        /\ em_response.status # 200 => ~em_response.has_embedding
        /\ ~ValidRequest(em_request) => em_encoded = 0
        /\ em_response.status = 400 => (em_encoded = 0 /\ ~ValidRequest(em_request))

\* C26: /embed answers 200 with an embedding only when the body is JSON whose
\* 'text' (or, 'text' being absent or falsy, 'query') is a string with a
\* non-whitespace character; every other request is answered 400 without an
\* embedding, 500 being the answer only when the model raises; in a 200 answer
\* dimension is the length of embedding; the model is not invoked for a
\* request answered 400.
C26_EmbedAnswers ==
    /\ EmbedAnswersSound
    /\ em_pc = "answered" =>
          /\ ~ValidRequest(em_request) => em_response.status = 400
          /\ em_response.status = 500 => em_encoded = 1

=============================================================================
